---- MODULE Spec2Model ----
(***************************************************************************)
(* Verification model of the wordmarkov crate: the sentence tokenizer      *)
(* (sentence/lex.rs, sentence/token.rs) and the Markov chain container     *)
(* (chain/body.rs, chain/token.rs, chain/selectors).                       *)
(*                                                                         *)
(* Strings are sequences of one-character strings.  For the tokenizer the  *)
(* input is a sequence of UTF-8 bytes, so that indexing by character       *)
(* (chars().nth) and slicing by byte (&from[start..head]) stay distinct.   *)
(***************************************************************************)
EXTENDS Integers, Sequences, FiniteSets, TLC

VARIABLES
    lexstate,   \* the LexingState struct: from, start, head, state
    tokens,     \* the tokens the iterator has returned so far, in order
    panicked,   \* "none", or the name of the panic that ended the program
    chain,      \* the MarkovChain struct
    calls,      \* number of mutating calls made on the chain so far
    ret,        \* the last call on the chain and what it returned
    comp        \* the activation record of compose_sentence

vars == <<lexstate, tokens, panicked, chain, calls, ret, comp>>

----------------------------------------------------------------------------
(* Bounds of the model *)

MaxInputChars == 3
MaxSentenceLen == 4
MaxCalls == 2

----------------------------------------------------------------------------
(* Generic helpers *)

RECURSIVE SeqsUpTo(_, _)
SeqsUpTo(S, n) ==
    IF n = 0 THEN {<<>>}
    ELSE LET shorter == SeqsUpTo(S, n - 1)
         IN  shorter \cup {Append(q, x) : q \in {r \in shorter : Len(r) = n - 1}, x \in S}

RECURSIVE Flatten(_)
Flatten(ss) == IF ss = <<>> THEN <<>> ELSE Head(ss) \o Flatten(Tail(ss))

----------------------------------------------------------------------------
(* sentence/token.rs : Token *)

TokWord(s) == [kind |-> "Word", s |-> s]
TokWhite(s) == [kind |-> "White", s |-> s]
TokPunct(s) == [kind |-> "Punct", s |-> s]
TokBegin == [kind |-> "Begin", s |-> <<>>]
TokEnd == [kind |-> "End", s |-> <<>>]

\* impl Into<&str> for &Token
TokenStr(t) ==
    CASE t.kind = "Word" -> t.s
      [] t.kind = "Punct" -> t.s
      [] t.kind = "White" -> t.s
      [] t.kind = "Begin" -> <<>>
      [] t.kind = "End" -> <<>>

\* Token::recompose
RECURSIVE recompose(_)
recompose(ts) == IF ts = <<>> THEN <<>> ELSE TokenStr(Head(ts)) \o recompose(Tail(ts))

----------------------------------------------------------------------------
(* sentence/lex.rs : LexingState *)

\* The UTF-8 encodings of the characters inputs are drawn from: 'a', ',',
\* ' ' (one byte each) and a two-byte character such as U+00E9.
Utf8Chars == {<<"a">>, <<",">>, <<" ">>, <<"\\xC3", "\\xA9">>}

IsContinuationByte(b) == b = "\\xA9"

\* Every &str is valid UTF-8: a concatenation of whole characters.
InputStrings == {Flatten(cs) : cs \in SeqsUpTo(Utf8Chars, MaxInputChars)}

\* str::is_char_boundary
is_char_boundary(s, i) ==
    \/ i = 0
    \/ i = Len(s)
    \/ i < Len(s) /\ ~IsContinuationByte(s[i + 1])

\* from.chars() as a sequence of characters (each a byte sequence)
RECURSIVE chars(_)
chars(s) ==
    IF s = <<>> THEN <<>>
    ELSE IF Len(s) >= 2 /\ IsContinuationByte(s[2])
         THEN <<SubSeq(s, 1, 2)>> \o chars(SubSeq(s, 3, Len(s)))
         ELSE <<SubSeq(s, 1, 1)>> \o chars(Tail(s))

None == [none |-> TRUE]

\* Option<char>::None: no character is the empty byte sequence
NoChar == <<>>

\* from.chars().nth(n), n counted from 0
chars_nth(s, n) == LET cs == chars(s) IN IF n < Len(cs) THEN cs[n + 1] ELSE NoChar

char_type(char) ==
    IF char = NoChar THEN "End"
    ELSE IF char = <<",">> THEN "Punct"
    ELSE IF char = <<" ">> THEN "White"
    ELSE "Word"

\* &from[start..head]: a byte range; panics off a character boundary
SliceOk(s, start, head) ==
    /\ start <= head
    /\ head <= Len(s)
    /\ is_char_boundary(s, start)
    /\ is_char_boundary(s, head)

Slice(s, start, head) == SubSeq(s, start + 1, head)

state_wrap(st, s) ==
    CASE st = "White" -> TokWhite(s)
      [] st = "Punct" -> TokPunct(s)
      [] st = "Word" -> TokWord(s)
      [] st = "Begin" -> TokBegin
      [] st = "End" -> TokEnd

LexingState_new(from) == [from |-> from, start |-> 0, head |-> 0, state |-> "Begin"]

\* The loop of next(): head advances while the character under it is of the
\* class of the current run.
RECURSIVE ScanHead(_, _)
ScanHead(ls, h) ==
    IF char_type(chars_nth(ls.from, h)) # ls.state THEN h ELSE ScanHead(ls, h + 1)

\* peek_next at head h: a sentinel, a token over the slice, or a panic
PeekPanics(ls, h) ==
    /\ ls.state \notin {"Begin", "End"}
    /\ ~SliceOk(ls.from, ls.start, h)

peek_next(ls, h) ==
    IF ls.state = "Begin" THEN TokBegin
    ELSE IF ls.state = "End" THEN TokEnd
    ELSE state_wrap(ls.state, Slice(ls.from, ls.start, h))

\* Iterator::next for LexingState, one whole call
LexNext ==
    /\ panicked = "none"
    /\ IF lexstate.state = "Empty"
       THEN \* None: nothing is yielded and nothing changes
            UNCHANGED <<lexstate, tokens, panicked>>
       ELSE IF lexstate.state = "End"
       THEN /\ lexstate' = [lexstate EXCEPT !.state = "Empty"]
            /\ tokens' = Append(tokens, TokEnd)
            /\ UNCHANGED panicked
       ELSE LET h == ScanHead(lexstate, lexstate.head)
                ctype == char_type(chars_nth(lexstate.from, h))
            IN  IF PeekPanics(lexstate, h)
                THEN /\ panicked' = "str_slice"
                     /\ lexstate' = [lexstate EXCEPT !.head = h]
                     /\ UNCHANGED tokens
                ELSE LET res == peek_next(lexstate, h)
                     IN  /\ lexstate' = [lexstate EXCEPT
                                !.head = h,
                                !.state = ctype,
                                !.start = IF res # TokBegin THEN h ELSE @]
                         /\ tokens' = Append(tokens, res)
                         /\ UNCHANGED panicked
    /\ UNCHANGED <<chain, calls, ret, comp>>


----------------------------------------------------------------------------
(* The Lexer that chain/body.rs and tests/lex.rs use: Begin, then runs that *)
(* alternate Punct / Word, opening and closing with a (possibly empty)      *)
(* Punct, then End.  Whitespace and ASCII punctuation are one class.        *)

SentenceChars == {"a", " "}

IsPunctChar(ch) == ch \in {" ", ",", "."}

\* Length of the longest prefix of s whose characters are all of one class
RECURSIVE RunLen(_, _)
RunLen(s, punct) ==
    IF s = <<>> \/ IsPunctChar(Head(s)) # punct THEN 0 ELSE 1 + RunLen(Tail(s), punct)

RECURSIVE LexerRuns(_, _)
LexerRuns(s, punct) ==
    LET n == RunLen(s, punct)
        run == SubSeq(s, 1, n)
        rest == SubSeq(s, n + 1, Len(s))
    IN  IF punct
        THEN IF rest = <<>> THEN <<TokPunct(run)>>
             ELSE <<TokPunct(run)>> \o LexerRuns(rest, FALSE)
        ELSE <<TokWord(run)>> \o LexerRuns(rest, TRUE)

\* Everything Lexer::new(s) yields before it is exhausted
Lexer(s) == <<TokBegin>> \o LexerRuns(s, TRUE) \o <<TokEnd>>

----------------------------------------------------------------------------
(* chain/token.rs : MarkovToken, MarkovTokenOwned *)

MtBegin == [kind |-> "Begin", s |-> <<>>]
MtEnd == [kind |-> "End", s |-> <<>>]
MtTextlet(s) == [kind |-> "Textlet", s |-> s]

\* MarkovToken::len
MarkovToken_len(t) == IF t.kind = "Textlet" THEN Len(t.s) ELSE 0

\* TokenList::is_empty: `self.iter().any(|x| x.len() > 0)`
TokenList_is_empty(ts) == \E i \in DOMAIN ts : MarkovToken_len(ts[i]) > 0

\* TokenList::len
RECURSIVE TokenList_len(_)
TokenList_len(ts) ==
    IF ts = <<>> THEN 0 ELSE MarkovToken_len(Head(ts)) + TokenList_len(Tail(ts))

----------------------------------------------------------------------------
(* chain/body.rs : MarkovChain *)

\* HashMap::insert
MapInsert(m, k, v) == [x \in (DOMAIN m) \cup {k} |-> IF x = k THEN v ELSE m[x]]

EmptyMap == [x \in {} |-> 0]

\* Vec indexing, indices counted from 0
At(v, i) == v[i + 1]

MarkovChain_new ==
    [textlet_bag |-> <<MtBegin, MtEnd>>,
     textlet_indices |-> EmptyMap,
     edge_list |-> <<>>,
     edges |-> EmptyMap,
     reverse_edges |-> EmptyMap,
     seedbag |-> <<>>]

\* ensure_textlet_index without the lookup: every call allocates
ensure_textlet_index_always_new(c, word) ==
    LET i == Len(c.textlet_bag)
    IN  [chain |-> [c EXCEPT
               !.textlet_bag = Append(@, MtTextlet(word)),
               !.textlet_indices = MapInsert(@, word, i)],
         id |-> i]

\* ensure_textlet_index numbering by the strings interned, sentinels forgotten
ensure_textlet_index_by_map_size(c, word) ==
    IF word \in DOMAIN c.textlet_indices
    THEN [chain |-> c, id |-> c.textlet_indices[word]]
    ELSE LET i == Cardinality(DOMAIN c.textlet_indices)
         IN  [chain |-> [c EXCEPT
                    !.textlet_bag = Append(@, MtTextlet(word)),
                    !.textlet_indices = MapInsert(@, word, i)],
              id |-> i]

ensure_textlet_index(c, word) ==
    IF word \in DOMAIN c.textlet_indices
    THEN [chain |-> c, id |-> c.textlet_indices[word]]
    ELSE LET i == Len(c.textlet_bag)
         IN  [chain |-> [c EXCEPT
                    !.textlet_bag = Append(@, MtTextlet(word)),
                    !.textlet_indices = MapInsert(@, word, i)],
              id |-> i]

ensure_textlet_from_token(c, token) ==
    CASE token.kind = "Begin" -> [chain |-> c, id |-> 0]
      [] token.kind = "End" -> [chain |-> c, id |-> 1]
      [] token.kind = "Punct" -> ensure_textlet_index(c, token.s)
      [] token.kind = "Word" -> ensure_textlet_index(c, token.s)

\* try_get_textlet_index answering an unseen string with the id it would get
try_get_textlet_index_or_next(c, word) ==
    IF word \in DOMAIN c.textlet_indices
    THEN [some |-> TRUE, id |-> c.textlet_indices[word]]
    ELSE [some |-> TRUE, id |-> Len(c.textlet_bag)]

try_get_textlet_index(c, word) ==
    IF word \in DOMAIN c.textlet_indices
    THEN [some |-> TRUE, id |-> c.textlet_indices[word]]
    ELSE [some |-> FALSE, id |-> 0]

\* get_textlet(index).is_some()
HasTextlet(c, index) == index >= 0 /\ index < Len(c.textlet_bag)

get_textlet(c, index) == At(c.textlet_bag, index)

\* push_new_edge storing the two ends the other way round
push_new_edge_swapped(c, from, to, punct) ==
    [chain |-> [c EXCEPT !.edge_list =
                    Append(@, [src_idx |-> to, dst_idx |-> from, hits |-> 1, pct_idx |-> punct])],
     idx |-> Len(c.edge_list)]

push_new_edge(c, from, to, punct) ==
    [chain |-> [c EXCEPT !.edge_list =
                    Append(@, [src_idx |-> from, dst_idx |-> to, hits |-> 1, pct_idx |-> punct])],
     idx |-> Len(c.edge_list)]

add_reverse_edge(c, edge_idx) ==
    LET edge == At(c.edge_list, edge_idx)
    IN  IF edge.dst_idx \notin DOMAIN c.reverse_edges
        THEN [c EXCEPT !.reverse_edges = MapInsert(@, edge.dst_idx, <<edge_idx>>)]
        ELSE LET rev_vec == c.reverse_edges[edge.dst_idx]
             IN  IF \E k \in DOMAIN rev_vec :
                        /\ edge.src_idx = At(c.edge_list, rev_vec[k]).src_idx
                        /\ edge.pct_idx = At(c.edge_list, rev_vec[k]).pct_idx
                 THEN c
                 ELSE [c EXCEPT !.reverse_edges[edge.dst_idx] = Append(@, edge_idx)]

\* The edge of edgevec, first in order, that leads to `to` through `punct`;
\* 0 when there is none (positions are counted from 1)
FirstMatch(c, edgevec, to, punct) ==
    LET hit == {k \in DOMAIN edgevec :
                    /\ At(c.edge_list, edgevec[k]).dst_idx = to
                    /\ At(c.edge_list, edgevec[k]).pct_idx = punct}
    IN  IF hit = {} THEN 0 ELSE CHOOSE k \in hit : \A j \in hit : k <= j

\* register_edge, first statement: the seed bag takes `from` once
add_seed_twice(c, from) == [c EXCEPT !.seedbag = Append(@, from)]

add_seed(c, from) ==
    IF \E k \in DOMAIN c.seedbag : c.seedbag[k] = from
    THEN c
    ELSE [c EXCEPT !.seedbag = Append(@, from)]

register_edge(c, from, to, punct) ==
    LET c1 == add_seed(c, from)
        k == IF from \in DOMAIN c1.edges
             THEN FirstMatch(c1, c1.edges[from], to, punct)
             ELSE 0
    IN  IF k # 0
        THEN [c1 EXCEPT !.edge_list[c1.edges[from][k] + 1].hits = @ + 1]
        ELSE LET pushed == push_new_edge(c1, from, to, punct)
                 idx == pushed.idx
                 \* self.edges.insert(from, vec![idx]) replaces what was there
                 c2 == [pushed.chain EXCEPT !.edges = MapInsert(@, from, <<idx>>)]
                 \* the key is present now, so the idx is pushed once more
                 c3 == IF from \in DOMAIN c2.edges
                       THEN [c2 EXCEPT !.edges[from] = Append(@, idx)]
                       ELSE [c2 EXCEPT !.edges = MapInsert(@, from, <<idx>>)]
             IN  add_reverse_edge(c3, idx)

num_textlets(c) == Len(c.textlet_bag)

num_edges(c) == Len(c.edge_list)

\* emptiness judged by the interned strings instead of the edges
is_empty_by_textlets(c) == DOMAIN c.textlet_indices = {}

is_empty(c) == c.edge_list = <<>>

\* MarkovChain::len
len(c) == Len(c.textlet_bag)

\* An iterator over a token list: next() at position i (from 1)
IterNext(toks, i) == IF i <= Len(toks) THEN toks[i] ELSE None

\* The loop of parse_sentence that gathers the triples.  curr is the current
\* token, i the position the lexer is at.  Yields the triples, or "return"
\* when the stream ends inside a triple, or "panic" on a missing current token.
\* GatherTriples leaving the loop at End before the triple is pushed
RECURSIVE GatherTriples_break_first(_, _, _, _)
GatherTriples_break_first(toks, curr, i, acc) ==
    IF curr = None THEN [exit |-> "panic", triples |-> acc]
    ELSE LET punct == IterNext(toks, i)
             next_token == IterNext(toks, i + 1)
         IN  IF punct = None \/ next_token = None
             THEN [exit |-> "return", triples |-> acc]
             ELSE IF next_token = TokEnd
                  THEN [exit |-> "break", triples |-> acc]
                  ELSE GatherTriples_break_first(toks, next_token, i + 2,
                                                 Append(acc, <<curr, punct, next_token>>))

\* GatherTriples unwrapping the punct and the next token without a check
RECURSIVE GatherTriples_unwrap(_, _, _, _)
GatherTriples_unwrap(toks, curr, i, acc) ==
    IF curr = None THEN [exit |-> "panic", triples |-> acc]
    ELSE LET punct == IterNext(toks, i)
             next_token == IterNext(toks, i + 1)
         IN  IF punct = None \/ next_token = None
             THEN [exit |-> "panic", triples |-> acc]
             ELSE LET acc1 == Append(acc, <<curr, punct, next_token>>)
                  IN  IF next_token = TokEnd
                      THEN [exit |-> "break", triples |-> acc1]
                      ELSE GatherTriples_unwrap(toks, next_token, i + 2, acc1)

RECURSIVE GatherTriples(_, _, _, _)
GatherTriples(toks, curr, i, acc) ==
    IF curr = None THEN [exit |-> "panic", triples |-> acc]
    ELSE LET punct == IterNext(toks, i)
             next_token == IterNext(toks, i + 1)
         IN  IF punct = None \/ next_token = None
             THEN [exit |-> "return", triples |-> acc]
             ELSE LET acc1 == Append(acc, <<curr, punct, next_token>>)
                  IN  IF next_token = TokEnd
                      THEN [exit |-> "break", triples |-> acc1]
                      ELSE GatherTriples(toks, next_token, i + 2, acc1)

RECURSIVE RegisterTriples(_, _)
RegisterTriples(c, triples) ==
    IF triples = <<>> THEN c
    ELSE LET t == Head(triples)
             src == ensure_textlet_from_token(c, t[1])
             pct == ensure_textlet_from_token(src.chain, t[2])
             dst == ensure_textlet_from_token(pct.chain, t[3])
         IN  RegisterTriples(register_edge(dst.chain, src.id, dst.id, pct.id), Tail(triples))

\* parse_sentence without the early return on the empty sentence
parse_sentence_no_early_return(c, sentence) ==
    LET toks == Lexer(sentence)
        g == GatherTriples(toks, IterNext(toks, 1), 2, <<>>)
    IN  CASE g.exit = "panic" -> [chain |-> c, panic |-> TRUE]
          [] g.exit = "return" -> [chain |-> c, panic |-> FALSE]
          [] g.exit = "break" ->
                [chain |-> RegisterTriples(c, g.triples), panic |-> FALSE]

\* the body of parse_sentence registering, on the early return, the triples
\* read so far
parse_tokens_keeps_read(c, sentence, toks) ==
    LET curr_token == IterNext(toks, 1)
    IN  IF sentence = <<>> THEN [chain |-> c, panic |-> FALSE, exit |-> "empty"]
        ELSE LET g == GatherTriples(toks, curr_token, 2, <<>>)
             IN  CASE g.exit = "panic" -> [chain |-> c, panic |-> TRUE, exit |-> "panic"]
                   [] g.exit = "return" ->
                        [chain |-> RegisterTriples(c, g.triples), panic |-> FALSE,
                         exit |-> "return"]
                   [] g.exit = "break" ->
                        [chain |-> RegisterTriples(c, g.triples), panic |-> FALSE,
                         exit |-> "break"]

\* The body of parse_sentence over the tokens `toks` that the lexer yields
\* before it is exhausted: the chain afterwards, whether the call panicked,
\* and the way the call ended
parse_tokens(c, sentence, toks) ==
    LET curr_token == IterNext(toks, 1)
    IN  IF sentence = <<>> THEN [chain |-> c, panic |-> FALSE, exit |-> "empty"]
        ELSE LET g == GatherTriples(toks, curr_token, 2, <<>>)
             IN  CASE g.exit = "panic" -> [chain |-> c, panic |-> TRUE, exit |-> "panic"]
                   [] g.exit = "return" -> [chain |-> c, panic |-> FALSE, exit |-> "return"]
                   [] g.exit = "break" ->
                        [chain |-> RegisterTriples(c, g.triples), panic |-> FALSE,
                         exit |-> "break"]

\* parse_sentence: the chain afterwards, and whether the call panicked
parse_sentence(c, sentence) ==
    LET r == parse_tokens(c, sentence, Lexer(sentence))
    IN  [chain |-> r.chain, panic |-> r.panic]

----------------------------------------------------------------------------
(* chain/selectors : the built-in selectors *)

\* fixed.rs and random.rs each declare a NaiveRandomSelector
Selectors == {"StaticBestSelector", "fixed::NaiveRandomSelector",
              "WeightedRandomSelector", "random::NaiveRandomSelector"}

\* MarkovSelector::weight
weight(selector, hits) == IF selector = "random::NaiveRandomSelector" THEN 1 ELSE hits

\* MarkovSelector::selection_type
selection_type(selector) ==
    CASE selector = "StaticBestSelector" -> "Highest"
      [] selector = "fixed::NaiveRandomSelector" -> "Lowest"
      [] selector = "WeightedRandomSelector" -> "WeightedRandom"
      [] selector = "random::NaiveRandomSelector" -> "WeightedRandom"

----------------------------------------------------------------------------
(* chain/body.rs : seeds and selection *)

SeedWord(w) == [kind |-> "Word", word |-> w, id |-> 0]
SeedId(i) == [kind |-> "Id", word |-> <<>>, id |-> i]
SeedRandom == [kind |-> "Random", word |-> <<>>, id |-> 0]

\* get_seed drawing Random from every textlet id instead of the seed bag
get_seed_random_textlet(c, seed) ==
    CASE seed.kind = "Word" ->
            IF try_get_textlet_index(c, seed.word).some
            THEN {[status |-> "ok", id |-> try_get_textlet_index(c, seed.word).id]}
            ELSE {[status |-> "err", id |-> 0]}
      [] seed.kind = "Id" -> {[status |-> "ok", id |-> seed.id]}
      [] seed.kind = "Random" ->
            {[status |-> "ok", id |-> k - 1] : k \in DOMAIN c.textlet_bag}

\* get_seed: the set of outcomes.  Random draws Uniform::new(0, seedbag.len()),
\* which panics on an empty range.
get_seed(c, seed) ==
    CASE seed.kind = "Word" ->
            IF try_get_textlet_index(c, seed.word).some
            THEN {[status |-> "ok", id |-> try_get_textlet_index(c, seed.word).id]}
            ELSE {[status |-> "err", id |-> 0]}
      [] seed.kind = "Id" -> {[status |-> "ok", id |-> seed.id]}
      [] seed.kind = "Random" ->
            IF c.seedbag = <<>>
            THEN {[status |-> "panic", id |-> 0]}
            ELSE {[status |-> "ok", id |-> c.seedbag[k]] : k \in DOMAIN c.seedbag}

RECURSIVE SumTo(_, _)
SumTo(w, k) == IF k = 0 THEN 0 ELSE w[k] + SumTo(w, k - 1)

\* The reduce of the Lowest arm from position k on, `acc` being the position
\* kept so far: the accumulated candidate stays only when strictly lower
RECURSIVE reduce_lowest(_, _, _)
reduce_lowest(w, k, acc) ==
    IF k > Len(w) THEN acc
    ELSE reduce_lowest(w, k + 1, IF w[acc] < w[k] THEN acc ELSE k)

\* a reduce for Highest in which the accumulated candidate also stays on
\* equal weights
RECURSIVE reduce_highest_keep_on_tie(_, _, _)
reduce_highest_keep_on_tie(w, k, acc) ==
    IF k > Len(w) THEN acc
    ELSE reduce_highest_keep_on_tie(w, k + 1, IF w[acc] >= w[k] THEN acc ELSE k)

\* The reduce of the Highest arm: the accumulated candidate stays only when
\* strictly higher
RECURSIVE reduce_highest(_, _, _)
reduce_highest(w, k, acc) ==
    IF k > Len(w) THEN acc
    ELSE reduce_highest(w, k + 1, IF w[acc] > w[k] THEN acc ELSE k)

\* a scan that takes a candidate only when the running sum exceeds the draw
RECURSIVE WeightedRandomScan_strict(_, _, _, _)
WeightedRandomScan_strict(w, pick2, k, curr) ==
    IF k > Len(w) THEN 0
    ELSE IF 2 * (curr + w[k]) > pick2 THEN k
    ELSE WeightedRandomScan_strict(w, pick2, k + 1, curr + w[k])

\* The loop of the WeightedRandom arm from position k on with running sum
\* `curr`: the position of the first candidate with curr >= pick, 0 when the
\* loop ends with res = None.  The draw is counted in halves (pick = pick2/2)
\* so that it can fall on a cumulative sum and strictly between two of them.
RECURSIVE WeightedRandomScan(_, _, _, _)
WeightedRandomScan(w, pick2, k, curr) ==
    IF k > Len(w) THEN 0
    ELSE IF 2 * (curr + w[k]) >= pick2 THEN k
    ELSE WeightedRandomScan(w, pick2, k + 1, curr + w[k])

\* Uniform::new(0.0, total): the draws of [0, total), in halves
Picks(w) == 0 .. (2 * SumTo(w, Len(w)) - 1)

\* _weighted_select: the positions (from 1) of edges that the call can
\* return; position 0 stands for res.unwrap() on None.
weighted_select(sel_type, w) ==
    CASE sel_type = "Lowest" -> {reduce_lowest(w, 2, 1)}
      [] sel_type = "Highest" -> {reduce_highest(w, 2, 1)}
      [] sel_type = "WeightedRandom" ->
            {WeightedRandomScan(w, pick2, 1, 0) : pick2 \in Picks(w)}

\* What select_next_word hands back, with the id the seed resolved to (-1
\* when it did not resolve), the hits of the edge picked and the selector
\* methods called, in order
SelectErr(from) ==
    [status |-> "err", from |-> from, dest_id |-> 0, punct_id |-> 0,
     dest |-> MtBegin, punct |-> MtBegin, hits |-> 0, log |-> <<>>, pos |-> 0]

SelectPanic ==
    [status |-> "panic", from |-> -1, dest_id |-> 0, punct_id |-> 0,
     dest |-> MtBegin, punct |-> MtBegin, hits |-> 0, log |-> <<>>, pos |-> 0]

\* select_next_word once the seed is resolved to `from` and the index is
\* chosen: the set of outcomes.  `toward` is the direction the edge picked is
\* read in.
select_in(c, from, selector, index, toward) ==
    IF from \notin DOMAIN index \/ index[from] = <<>>
    THEN {SelectErr(from)}
    ELSE LET edgevec == index[from]
             \* selector.reset(direction), then one weight() call per edge
             weights == [k \in DOMAIN edgevec |->
                            weight(selector, At(c.edge_list, edgevec[k]).hits)]
         IN  {IF k = 0
              THEN [SelectPanic EXCEPT !.from = from]
              ELSE LET best_edge == At(c.edge_list, edgevec[k])
                       dest_id == IF toward = "Forward"
                                  THEN best_edge.dst_idx ELSE best_edge.src_idx
                   IN  [status |-> "ok", from |-> from,
                        dest_id |-> dest_id,
                        punct_id |-> best_edge.pct_idx,
                        dest |-> get_textlet(c, dest_id),
                        punct |-> get_textlet(c, best_edge.pct_idx),
                        hits |-> best_edge.hits,
                        log |-> <<"reset">> \o [k2 \in DOMAIN edgevec |-> "weight"]
                                     \o <<"selection_type">>,
                        pos |-> k]
              : k \in weighted_select(selection_type(selector), weights)}

\* the seed looked up in the reverse index whatever the direction
select_from_reverse_index(c, from, selector, direction) ==
    select_in(c, from, selector, c.reverse_edges, direction)

\* the destination of the edge handed back in both directions
select_from_dest_always(c, from, selector, direction) ==
    select_in(c, from, selector,
              IF direction = "Forward" THEN c.edges ELSE c.reverse_edges, "Forward")

\* select_next_word on a resolved seed id
select_from(c, from, selector, direction) ==
    select_in(c, from, selector,
              IF direction = "Forward" THEN c.edges ELSE c.reverse_edges, direction)

select_next_word(c, seed, selector, direction) ==
    UNION {CASE s.status = "ok" -> select_from(c, s.id, selector, direction)
             [] s.status = "err" -> {SelectErr(-1)}
             [] s.status = "panic" -> {SelectPanic}
           : s \in get_seed(c, seed)}

\* MarkovChain::begin
begin(c) == (CHOOSE k \in DOMAIN c.textlet_bag : c.textlet_bag[k] = MtBegin) - 1

----------------------------------------------------------------------------
(* chain/body.rs : compose_sentence, one loop iteration per step *)

MaxCap == 6
MaxWalk == 4
MaxCorpus == 1

SomeLen(v) == [some |-> TRUE, v |-> v]
NoLen == [some |-> FALSE, v |-> 0]

CompIdle ==
    [pc |-> "idle", seed |-> SeedRandom, selector |-> "StaticBestSelector",
     max_len |-> NoLen, sentence |-> <<>>, len |-> 0,
     seed_id |-> 0, curr_backward |-> 0, curr_forward |-> 0, result |-> "none",
     seed_resolved |-> FALSE, selector_called |-> FALSE]

Composing == comp.pc \in {"backward", "forward"}

CompReturn(result) == [comp EXCEPT !.pc = "returned", !.result = result]

Sentences == SeqsUpTo(SentenceChars, MaxSentenceLen)

\* Strings handed to ensure_textlet_index directly; "b" is in no sentence
EnsureWords == {<<>>, <<"a">>, <<"b">>}

\* Ids a caller may pass as a seed: the sentinels, interned strings, and one
\* that no textlet has
SeedIds == {0, 1, 2, 100}

\* Selectors composition is run with; the edges either NaiveRandomSelector
\* can pick are among those WeightedRandomSelector can
ComposeSelectors == {"StaticBestSelector", "WeightedRandomSelector"}

\* The seeds a caller may pass
ComposeSeeds ==
    {SeedRandom}
        \cup {SeedWord(w) : w \in {<<"a">>, <<"b">>}}
        \cup {SeedId(i) : i \in SeedIds}

MaxLens == {NoLen} \cup {SomeLen(v) : v \in 0 .. MaxCap}

\* compose_sentence up to the first loop
ComposeStart(seed, selector, max_len) ==
    /\ panicked = "none"
    /\ comp.pc = "idle"
    /\ LET fresh == [CompIdle EXCEPT !.seed = seed, !.selector = selector,
                                     !.max_len = max_len]
       IN  IF is_empty(chain)
           THEN /\ comp' = [fresh EXCEPT !.pc = "returned", !.result = "err_empty"]
                /\ UNCHANGED panicked
           ELSE \E s \in get_seed(chain, seed) :
                    CASE s.status = "err" ->
                            /\ comp' = [fresh EXCEPT !.pc = "returned", !.result = "err_seed",
                                                     !.seed_resolved = TRUE]
                            /\ UNCHANGED panicked
                      [] s.status = "panic" ->
                            /\ panicked' = "uniform_empty_range"
                            /\ comp' = [fresh EXCEPT !.seed_resolved = TRUE]
                      [] s.status = "ok" ->
                            IF ~HasTextlet(chain, s.id)
                            THEN /\ panicked' = "unwrap_none"
                                 /\ comp' = [fresh EXCEPT !.seed_resolved = TRUE]
                            ELSE /\ comp' = [fresh EXCEPT
                                        !.pc = "backward",
                                        !.seed_resolved = TRUE,
                                        !.sentence = <<get_textlet(chain, s.id)>>,
                                        !.len = MarkovToken_len(get_textlet(chain, s.id)),
                                        !.seed_id = s.id,
                                        !.curr_backward = s.id,
                                        !.curr_forward = s.id]
                                 /\ UNCHANGED panicked
    /\ UNCHANGED <<lexstate, tokens, chain, calls, ret>>

\* the budget check that lets one unit too many through
OverBudget_off_by_one(max_len, budget, new_len) == max_len.some /\ new_len > budget + 1

\* the budget check left out
OverBudget_never(max_len, budget, new_len) == FALSE

\* the budget check applied whether or not a cap was given
OverBudget_uncapped_too(max_len, budget, new_len) == new_len > budget

\* `capped && new_len > budget`
OverBudget(max_len, budget, new_len) == max_len.some /\ new_len > budget

\* a push that overwrites the element at the front
push_front_overwrite(list, t) == <<t>> \o Tail(list)

\* LinkedList::push_front as compose_sentence uses it
push_front(list, t) == <<t>> \o list

\* LinkedList::push_back as compose_sentence uses it
push_back(list, t) == Append(list, t)

\* One evaluation of the backward loop: its condition, and its body if entered
BackwardStep ==
    /\ panicked = "none"
    /\ comp.pc = "backward"
    /\ comp.max_len.some \/ comp.len < MaxWalk
    /\ IF comp.curr_backward = begin(chain)
       THEN comp' = [comp EXCEPT !.pc = "forward"]
       ELSE \E r \in select_next_word(chain, SeedId(comp.curr_backward), comp.selector, "Reverse") :
                IF r.status # "ok"
                THEN comp' = CompReturn("err_select")
                ELSE LET prev == r.dest
                         punct == r.punct
                         new_len == comp.len + MarkovToken_len(punct) + MarkovToken_len(prev)
                     IN  IF OverBudget(comp.max_len, comp.max_len.v \div 2, new_len)
                         THEN comp' = [comp EXCEPT !.pc = "forward", !.selector_called = TRUE]
                         ELSE IF prev = MtBegin
                         THEN comp' = [comp EXCEPT
                                    !.len = new_len,
                                    !.sentence = push_front(@, punct),
                                    !.pc = "forward",
                                    !.selector_called = TRUE]
                         ELSE comp' = [comp EXCEPT
                                    !.len = new_len,
                                    !.sentence = push_front(push_front(@, punct), prev),
                                    !.curr_backward = r.dest_id,
                                    !.selector_called = TRUE]
    /\ UNCHANGED <<lexstate, tokens, panicked, chain, calls, ret>>

\* One evaluation of the forward loop; leaving it returns Ok(TokenList)
ForwardStep ==
    /\ panicked = "none"
    /\ comp.pc = "forward"
    /\ comp.max_len.some \/ comp.len < MaxWalk
    /\ IF comp.curr_forward = begin(chain)
       THEN comp' = CompReturn("ok")
       ELSE \E r \in select_next_word(chain, SeedId(comp.curr_forward), comp.selector, "Forward") :
                IF r.status # "ok"
                THEN comp' = CompReturn("err_select")
                ELSE LET next == r.dest
                         punct == r.punct
                         new_len == comp.len + MarkovToken_len(punct) + MarkovToken_len(next)
                     IN  IF OverBudget(comp.max_len, comp.max_len.v, new_len)
                         THEN comp' = [CompReturn("ok") EXCEPT !.selector_called = TRUE]
                         ELSE IF next = MtEnd
                         THEN comp' = [CompReturn("ok") EXCEPT
                                    !.len = new_len,
                                    !.sentence = push_back(@, punct),
                                    !.selector_called = TRUE]
                         ELSE comp' = [comp EXCEPT
                                    !.len = new_len,
                                    !.sentence = push_back(push_back(@, punct), next),
                                    !.curr_forward = r.dest_id,
                                    !.selector_called = TRUE]
    /\ UNCHANGED <<lexstate, tokens, panicked, chain, calls, ret>>

\* The caller is done with what compose_sentence returned
ComposeDone ==
    /\ panicked = "none"
    /\ comp.pc = "returned"
    /\ comp' = CompIdle
    /\ UNCHANGED <<lexstate, tokens, panicked, chain, calls, ret>>

----------------------------------------------------------------------------
(* The tokenizer run over every input *)

NoCall == [op |-> "none", arg |-> <<>>, id |-> 0]

LexIdle == [from |-> <<>>, start |-> 0, head |-> 0, state |-> "Empty"]

InitLex ==
    /\ lexstate \in {LexingState_new(s) : s \in InputStrings}
    /\ tokens = <<>>
    /\ panicked = "none"
    /\ chain = MarkovChain_new
    /\ calls = 0
    /\ ret = NoCall
    /\ comp = CompIdle

NextLex == LexNext

SpecLex == InitLex /\ [][NextLex]_vars

----------------------------------------------------------------------------
(* The chain under arbitrary sequences of ensure_textlet_index and          *)
(* parse_sentence calls                                                     *)

Init ==
    /\ chain = MarkovChain_new
    /\ calls = 0
    /\ ret = NoCall
    /\ comp = CompIdle
    /\ panicked = "none"
    /\ lexstate = LexIdle
    /\ tokens = <<>>

EnsureTextletIndexWithin(limit, word) ==
    /\ panicked = "none"
    /\ comp.pc = "idle"
    /\ calls < limit
    /\ LET r == ensure_textlet_index(chain, word)
       IN  /\ chain' = r.chain
           /\ ret' = [op |-> "ensure_textlet_index", arg |-> word, id |-> r.id]
    /\ calls' = calls + 1
    /\ UNCHANGED <<lexstate, tokens, panicked, comp>>

EnsureTextletIndex(word) == EnsureTextletIndexWithin(MaxCalls, word)

ParseSentenceWithin(limit, sentence) ==
    /\ panicked = "none"
    /\ comp.pc = "idle"
    /\ calls < limit
    /\ LET r == parse_sentence(chain, sentence)
       IN  /\ chain' = r.chain
           /\ panicked' = IF r.panic THEN "none_token" ELSE "none"
    /\ ret' = [op |-> "parse_sentence", arg |-> sentence, id |-> 0]
    /\ calls' = calls + 1
    /\ UNCHANGED <<lexstate, tokens, comp>>

ParseSentence(sentence) == ParseSentenceWithin(MaxCalls, sentence)

\* "Mary had a little lamb", the sentence tests/body.rs parses
MaryHadALittleLamb ==
    <<"M", "a", "r", "y", " ", "h", "a", "d", " ", "a", " ",
      "l", "i", "t", "t", "l", "e", " ", "l", "a", "m", "b">>

ChainSentences == Sentences \cup {MaryHadALittleLamb}

\* Strings looked up: interned ones, "b", and "." which no sentence holds
TryWords == EnsureWords \cup {<<".">>}

\* One try_get_textlet_index call; ret.id is the id returned, -1 for None
TryGetTextletIndex(word) ==
    /\ panicked = "none"
    /\ comp.pc = "idle"
    /\ calls < MaxCalls
    /\ LET r == try_get_textlet_index(chain, word)
       IN  ret' = [op |-> "try_get_textlet_index", arg |-> word,
                   id |-> IF r.some THEN r.id ELSE -1]
    /\ calls' = calls + 1
    /\ UNCHANGED <<lexstate, tokens, panicked, chain, comp>>

Next ==
    \/ \E word \in EnsureWords : EnsureTextletIndex(word)
    \/ \E word \in TryWords : TryGetTextletIndex(word)
    \/ \E sentence \in ChainSentences : ParseSentence(sentence)

Spec == Init /\ [][Next]_vars

----------------------------------------------------------------------------
(* Sentences composed from a chain that parse_sentence has filled *)

\* A sentence in which a word has a word before it and a word after it, and
\* one whose second word lies three length units after the first
SampleSentences == {<<"a", " ", "b", " ", "a", " ", "b">>, <<"a", " ", " ", "b">>}

ComposeSentences == Sentences \cup SampleSentences

NextCompose ==
    \/ \E word \in EnsureWords : EnsureTextletIndexWithin(MaxCorpus, word)
    \/ \E sentence \in ComposeSentences : ParseSentenceWithin(MaxCorpus, sentence)
    \/ \E seed \in ComposeSeeds, selector \in ComposeSelectors, max_len \in MaxLens :
            ComposeStart(seed, selector, max_len)
    \/ BackwardStep
    \/ ForwardStep
    \/ ComposeDone

SpecCompose == Init /\ [][NextCompose]_vars

----------------------------------------------------------------------------
(* select_next_word called on a chain that parse_sentence and               *)
(* ensure_textlet_index have filled                                         *)

MaxSelectLen == 3

Directions == {"Forward", "Reverse"}

\* Ids a caller may pass: the sentinels, and one that no textlet has
SelectIds == {0, 1, 100}

SelectSeeds ==
    {SeedRandom}
        \cup {SeedWord(w) : w \in {<<"a">>, <<"b">>}}
        \cup {SeedId(i) : i \in SelectIds}

\* A sentence in which one transition is met twice and another once
SelectSamples == {<<"a", " ", "a", " ", "a">>}

SelectSentences == SeqsUpTo(SentenceChars, MaxSelectLen) \cup SelectSamples

\* One select_next_word call; ret keeps the arguments and what came back
SelectNextWord(seed, selector, direction) ==
    /\ panicked = "none"
    /\ comp.pc = "idle"
    /\ \E out \in select_next_word(chain, seed, selector, direction) :
            /\ ret' = [op |-> "select_next_word",
                       arg |-> [seed |-> seed, selector |-> selector,
                                direction |-> direction, out |-> out],
                       id |-> out.dest_id]
            /\ panicked' = CASE out.status # "panic" -> "none"
                              [] out.from = -1 -> "uniform_empty_range"
                              [] OTHER -> "unwrap_none"
    /\ UNCHANGED <<lexstate, tokens, chain, calls, comp>>

NextSelect ==
    \/ \E word \in EnsureWords : EnsureTextletIndexWithin(MaxCorpus, word)
    \/ \E sentence \in SelectSentences : ParseSentenceWithin(MaxCorpus, sentence)
    \/ \E seed \in SelectSeeds, selector \in Selectors, direction \in Directions :
            SelectNextWord(seed, selector, direction)

SpecSelect == Init /\ [][NextSelect]_vars

----------------------------------------------------------------------------
(* One sentence parsed again and again into a fresh chain *)

MaxRepeat == 3

RepeatChars == {"a", "b", " "}

RepeatSentences == SeqsUpTo(RepeatChars, MaxSentenceLen)

InitRepeat ==
    /\ chain = MarkovChain_new
    /\ calls = 0
    /\ ret \in {[op |-> "parse_sentence", arg |-> s, id |-> 0] : s \in RepeatSentences}
    /\ comp = CompIdle
    /\ panicked = "none"
    /\ lexstate = LexIdle
    /\ tokens = <<>>

ParseAgain ==
    /\ panicked = "none"
    /\ calls < MaxRepeat
    /\ LET r == parse_sentence(chain, ret.arg)
       IN  /\ chain' = r.chain
           /\ panicked' = IF r.panic THEN "none_token" ELSE "none"
    /\ calls' = calls + 1
    /\ UNCHANGED <<lexstate, tokens, ret, comp>>

NextRepeat == ParseAgain

SpecRepeat == InitRepeat /\ [][NextRepeat]_vars

----------------------------------------------------------------------------
(* Properties of the tokenizer *)

LexDone == lexstate.state = "Empty" /\ panicked = "none"

\* C3: for every input, the string views of the emitted tokens, concatenated
\* in emission order, are the input exactly.
C3_RoundTrip == LexDone => recompose(tokens) = lexstate.from

\* Begin, then Punct and Word strictly alternating from a Punct to a Punct,
\* then End
Alternates(ts) ==
    /\ Len(ts) >= 3
    /\ Len(ts) % 2 = 1
    /\ ts[1] = TokBegin
    /\ ts[Len(ts)] = TokEnd
    /\ \A i \in 2 .. (Len(ts) - 1) :
            ts[i].kind = (IF i % 2 = 0 THEN "Punct" ELSE "Word")

\* C4: for every input the emitted sequence is Begin, Punct, Word, Punct,
\* ..., Punct, End; no two Word and no two Punct tokens are adjacent.
C4_Alternation == LexDone => Alternates(tokens)

----------------------------------------------------------------------------
(* Properties of the chain *)

Triple(e) == <<e.src_idx, e.dst_idx, e.pct_idx>>

C2_RepeatCountsHits ==
    calls >= 1 =>
        /\ num_edges(chain) = num_edges(parse_sentence(MarkovChain_new, ret.arg).chain)
        /\ \A i \in DOMAIN chain.edge_list : chain.edge_list[i].hits = calls

Interned(c) == DOMAIN c.textlet_indices

\* C5: across ensure_textlet_index and parse_sentence calls a string keeps
\* the id it was first given, ensure_textlet_index returns that id, two
\* strings never share an id, and no entry of the bag is replaced or removed.
C5_Step ==
    /\ \A w \in Interned(chain) :
            /\ w \in Interned(chain')
            /\ chain'.textlet_indices[w] = chain.textlet_indices[w]
    /\ Len(chain'.textlet_bag) >= Len(chain.textlet_bag)
    /\ SubSeq(chain'.textlet_bag, 1, Len(chain.textlet_bag)) = chain.textlet_bag
    /\ \A w \in Interned(chain') :
            /\ HasTextlet(chain', chain'.textlet_indices[w])
            /\ get_textlet(chain', chain'.textlet_indices[w]) = MtTextlet(w)
    /\ \A v, w \in Interned(chain') :
            chain'.textlet_indices[v] = chain'.textlet_indices[w] => v = w
    /\ ret'.op = "ensure_textlet_index" =>
            /\ ret'.arg \in Interned(chain')
            /\ ret'.id = chain'.textlet_indices[ret'.arg]

C5_InterningStable == [][C5_Step]_vars

\* ensure_textlet_index was handed a string that an earlier call or parse
\* had interned already, next to another interned string
C5_Witness ==
    /\ ret.op = "ensure_textlet_index"
    /\ calls >= 2
    /\ ret.id + 1 < Len(chain.textlet_bag)
    /\ Cardinality(Interned(chain)) >= 2

InSeedbag(c, id) == \E k \in DOMAIN c.seedbag : c.seedbag[k] = id

HasOutgoing(c, id) == \E i \in DOMAIN c.edge_list : c.edge_list[i].src_idx = id

\* C6: a textlet id is in the seed bag iff some edge of the edge list has it
\* as src, and it is in the seed bag at most once.
C6_SeedbagIsSources ==
    /\ \A id \in 0 .. (Len(chain.textlet_bag) - 1) :
            InSeedbag(chain, id) <=> HasOutgoing(chain, id)
    /\ \A k \in DOMAIN chain.seedbag :
            chain.seedbag[k] >= 0 /\ chain.seedbag[k] < Len(chain.textlet_bag)
    /\ \A j, k \in DOMAIN chain.seedbag : chain.seedbag[j] = chain.seedbag[k] => j = k

\* a source already in the seed bag was registered again, and a textlet
\* without outgoing edges exists
C6_Witness ==
    /\ Len(chain.seedbag) >= 2
    /\ \E i \in DOMAIN chain.edge_list : chain.edge_list[i].hits >= 2
    /\ \E id \in 2 .. (Len(chain.textlet_bag) - 1) : ~InSeedbag(chain, id)

----------------------------------------------------------------------------
(* Properties of compose_sentence *)

ReturnedOk == comp.pc = "returned" /\ comp.result = "ok"

ReturnedOkCapped == ReturnedOk /\ comp.max_len.some

MaxOf(a, b) == IF a >= b THEN a ELSE b

\* C7 as stated: a successful compose_sentence(seed, selector, Some(L))
\* returns a token list whose len() is strictly less than L.
C7_LenBelowCap == ReturnedOkCapped => TokenList_len(comp.sentence) < comp.max_len.v

\* C7 as the code has it: the len() of the returned list is at most L, or
\* the length of the seed token when that alone is longer than L.
C7_LenAtMostCapOrSeed ==
    ReturnedOkCapped =>
        TokenList_len(comp.sentence)
            <= MaxOf(comp.max_len.v, MarkovToken_len(get_textlet(chain, comp.seed_id)))

\* a successful capped composition that added tokens and whose length is
\* exactly the cap
C7_Witness ==
    /\ ReturnedOkCapped
    /\ Len(comp.sentence) >= 3
    /\ TokenList_len(comp.sentence) = comp.max_len.v

\* The longest punctuation-and-token pair some edge of the chain contributes
PairLens(c) ==
    {MarkovToken_len(get_textlet(c, c.edge_list[i].pct_idx))
        + MaxOf(MarkovToken_len(get_textlet(c, c.edge_list[i].src_idx)),
                MarkovToken_len(get_textlet(c, c.edge_list[i].dst_idx)))
     : i \in DOMAIN c.edge_list}

MaxPairLen(c) == CHOOSE m \in PairLens(c) : \A n \in PairLens(c) : n <= m

\* C8: for a successful compose_sentence(seed, selector, Some(L)) the length
\* of the recomposed string is at most L plus the length of one
\* token-punctuation pair of the chain.
C8_LenWithinCapPlusPair ==
    ReturnedOkCapped =>
        TokenList_len(comp.sentence) <= comp.max_len.v + MaxPairLen(chain)

\* a successful capped composition that is longer than the cap
C8_Witness ==
    /\ ReturnedOkCapped
    /\ TokenList_len(comp.sentence) > comp.max_len.v

\* C9: with max_len = Some(L), an iteration of the backward or of the
\* forward loop that does not leave the loop strictly increases the running
\* length, and the running length it reaches is within the cap (half of it
\* in the backward loop).
C9_Step ==
    /\ (comp.pc = "backward" /\ comp'.pc = "backward" /\ comp.max_len.some) =>
            /\ comp'.len > comp.len
            /\ comp'.len <= comp.max_len.v \div 2
    /\ (comp.pc = "forward" /\ comp'.pc = "forward" /\ comp.max_len.some) =>
            /\ comp'.len > comp.len
            /\ comp'.len <= comp.max_len.v

C9_LoopsProgressWithinCap == [][C9_Step]_vars

\* both loops have gone round at least once under a cap: two tokens were
\* prepended and two appended to the seed
C9_Witness ==
    /\ comp.pc = "forward"
    /\ comp.max_len.some
    /\ comp.curr_backward # comp.seed_id
    /\ comp.curr_forward # comp.seed_id
    /\ Len(comp.sentence) >= 5

\* C10: for every seed kind, the token list a successful compose_sentence
\* returns holds no Begin token and no End token.
C10_NoSentinelReturned ==
    ReturnedOk =>
        \A i \in DOMAIN comp.sentence : comp.sentence[i].kind \notin {"Begin", "End"}

----------------------------------------------------------------------------
(* Properties of select_next_word and of the error paths *)

\* The panics get_seed and compose_sentence can end in: Uniform::new on an
\* empty range, and unwrap() of a textlet that is not there
SeedPanics == {"uniform_empty_range", "unwrap_none"}

\* C11: for every chain (one with no edges included) and every seed,
\* select_next_word and compose_sentence never panic; lookup failures, dead
\* ends and the empty chain come back as Err values.
C11_NeverPanics == panicked \notin SeedPanics

Selected == ret.op = "select_next_word"

SelectedOk == Selected /\ ret.arg.out.status = "ok"

HasIncoming(c, id) == \E i \in DOMAIN c.edge_list : c.edge_list[i].dst_idx = id

\* some edge of the edge list leaves (Forward) or enters (Reverse) id
HasEdgeToward(c, id, direction) ==
    IF direction = "Forward" THEN HasOutgoing(c, id) ELSE HasIncoming(c, id)

\* C12: select_next_word returns Err when the Word seed is not interned or
\* when the resolved seed id has no edge in the requested direction, returns
\* Ok whenever the resolved id has an edge in that direction, and leaves the
\* chain as it was.
C12_Step ==
    (ret'.op = "select_next_word" /\ panicked' = "none") =>
        \E a \in {ret'.arg} :
            /\ chain' = chain
            /\ (a.seed.kind = "Word" /\ a.seed.word \notin Interned(chain)) =>
                    a.out.status = "err" /\ a.out.log = <<>>
            /\ (a.out.from # -1 /\ ~HasEdgeToward(chain, a.out.from, a.direction)) =>
                    a.out.status = "err" /\ a.out.log = <<>>
            /\ (a.out.from # -1 /\ HasEdgeToward(chain, a.out.from, a.direction)) =>
                    a.out.status = "ok"
            /\ a.out.from = -1 => a.seed.kind = "Word"
            /\ a.seed.kind = "Word" /\ a.seed.word \in Interned(chain) =>
                    a.out.from = chain.textlet_indices[a.seed.word]
            /\ a.seed.kind = "Id" => a.out.from = a.seed.id
            /\ a.seed.kind = "Random" => InSeedbag(chain, a.out.from)

C12_SelectErrOrOk == [][C12_Step]_vars

\* select_next_word has failed on a textlet that has edges, none of them in
\* the direction asked for
C12_Witness ==
    /\ Selected
    /\ ret.arg.out.status = "err"
    /\ ret.arg.out.from # -1
    /\ HasEdgeToward(chain, ret.arg.out.from,
                     IF ret.arg.direction = "Forward" THEN "Reverse" ELSE "Forward")

\* C13: on a chain with no edges compose_sentence returns the empty-chain
\* error for every seed kind and every max_len, without resolving the seed
\* and without calling a selector method.
C13_EmptyChainErr ==
    num_edges(chain) = 0 =>
        /\ ~comp.seed_resolved
        /\ ~comp.selector_called
        /\ panicked \notin SeedPanics
        /\ comp.pc # "idle" => comp.pc = "returned" /\ comp.result = "err_empty"

\* compose_sentence has returned the empty-chain error for a Random seed
\* under a cap, on a chain that has an interned string and no edge
C13_Witness ==
    /\ comp.pc = "returned"
    /\ comp.result = "err_empty"
    /\ comp.seed = SeedRandom
    /\ comp.max_len.some
    /\ num_textlets(chain) > 2
    /\ num_edges(chain) = 0

\* The hits of the edges that leave (Forward) or enter (Reverse) id
HitsToward(c, id, direction) ==
    {c.edge_list[i].hits : i \in {j \in DOMAIN c.edge_list :
        IF direction = "Forward" THEN c.edge_list[j].src_idx = id
                                 ELSE c.edge_list[j].dst_idx = id}}

MaxHitsToward(c, id, direction) ==
    CHOOSE m \in HitsToward(c, id, direction) :
        \A n \in HitsToward(c, id, direction) : n <= m

\* The edges of the edge list that go from `from` to dest_id through
\* punct_id (Forward), or from dest_id to `from` (Reverse)
EdgesReturned(c, from, direction, dest_id, punct_id) ==
    {i \in DOMAIN c.edge_list :
        /\ c.edge_list[i].pct_idx = punct_id
        /\ IF direction = "Forward"
           THEN c.edge_list[i].src_idx = from /\ c.edge_list[i].dst_idx = dest_id
           ELSE c.edge_list[i].src_idx = dest_id /\ c.edge_list[i].dst_idx = from}

\* C14: with StaticBestSelector, select_next_word from textlet s returns an
\* edge whose hits is the maximum over all edges of the chain with src = s
\* (Forward) or dst = s (Reverse).
C14_HighestPicksMaxHits ==
    (SelectedOk /\ ret.arg.selector = "StaticBestSelector") =>
        LET out == ret.arg.out
        IN  \E i \in EdgesReturned(chain, out.from, ret.arg.direction,
                                   out.dest_id, out.punct_id) :
                chain.edge_list[i].hits = MaxHitsToward(chain, out.from, ret.arg.direction)

\* C15: on success select_next_word returns (dest, punct, dest_id, punct_id)
\* such that the edge list has an edge seed -> dest_id (Forward) or
\* dest_id -> seed (Reverse) through punct_id, and the tokens returned are
\* get_textlet of the ids returned.
C15_ReturnsAnEdge ==
    SelectedOk =>
        LET out == ret.arg.out
        IN  /\ EdgesReturned(chain, out.from, ret.arg.direction,
                             out.dest_id, out.punct_id) # {}
            /\ HasTextlet(chain, out.dest_id)
            /\ HasTextlet(chain, out.punct_id)
            /\ out.dest = get_textlet(chain, out.dest_id)
            /\ out.punct = get_textlet(chain, out.punct_id)

\* a Reverse selection among two candidate edges has returned a word
C15_Witness ==
    /\ SelectedOk
    /\ ret.arg.direction = "Reverse"
    /\ ret.arg.out.dest.kind = "Textlet"
    /\ Len(ret.arg.out.log) >= 4

----------------------------------------------------------------------------
(* Properties of the tokenizer: runs, boundaries, exhaustion *)

\* ASCII punctuation or whitespace, by byte
IsPunctByte(b) == b \in {",", " "}

AllPunct(bs) == \A k \in DOMAIN bs : IsPunctByte(bs[k])

AllWord(bs) == \A k \in DOMAIN bs : ~IsPunctByte(bs[k])

\* The tokens between Begin and End
Inner(ts) == SubSeq(ts, 2, Len(ts) - 1)

\* C16: every Word token is a maximal run of characters that are neither
\* ASCII punctuation nor whitespace and every Punct token a maximal run of
\* punctuation and/or whitespace, so adjacent punctuation and whitespace
\* form one token.
C16_MaximalRuns ==
    LexDone =>
        LET inner == Inner(tokens)
        IN  /\ \A i \in DOMAIN inner :
                    /\ inner[i].kind \in {"Word", "Punct"}
                    /\ inner[i].kind = "Word" => AllWord(inner[i].s)
                    /\ inner[i].kind = "Punct" => AllPunct(inner[i].s)
            /\ \A i \in DOMAIN inner :
                    i + 1 \in DOMAIN inner => inner[i].kind # inner[i + 1].kind

\* C17: a Punct token directly follows Begin and a Punct token directly
\* precedes End; that Punct is empty exactly when the text starts (ends)
\* with a word character or is empty; no interior Punct and no Word token
\* is empty.
C17_BoundaryPunct ==
    LexDone =>
        LET inner == Inner(tokens)
            from == lexstate.from
        IN  /\ inner # <<>>
            /\ inner[1].kind = "Punct"
            /\ inner[Len(inner)].kind = "Punct"
            /\ inner[1].s = <<>> <=> (from = <<>> \/ ~IsPunctByte(from[1]))
            /\ inner[Len(inner)].s = <<>> <=> (from = <<>> \/ ~IsPunctByte(from[Len(from)]))
            /\ \A i \in DOMAIN inner :
                    (inner[i].kind = "Word" \/ (1 < i /\ i < Len(inner))) => inner[i].s # <<>>

\* No next() call yields a further token: the iterator is exhausted, or a
\* call has panicked
LexStopped == lexstate.state = "Empty" \/ panicked # "none"

\* C18: for every input the first token next() yields is Begin, End is
\* yielded exactly once after finitely many calls, and nothing is yielded
\* after End.
C18_BeginFirstEndOnce ==
    /\ tokens # <<>> => tokens[1] = TokBegin
    /\ \A i \in DOMAIN tokens : tokens[i] = TokEnd => i = Len(tokens)
    /\ \A i \in DOMAIN tokens : tokens[i] = TokEnd => lexstate.state = "Empty"
    /\ LexStopped => tokens # <<>> /\ tokens[Len(tokens)] = TokEnd

----------------------------------------------------------------------------
(* Properties of parse_sentence and of the textlet ids *)

\* A step in which parse_sentence was called
ParseStep == ret'.op = "parse_sentence" /\ calls' = calls + 1

RECURSIVE SumHits(_)
SumHits(es) == IF es = <<>> THEN 0 ELSE Head(es).hits + SumHits(Tail(es))

\* The id a token has in chain c
TokenId(c, t) ==
    CASE t.kind = "Begin" -> 0
      [] t.kind = "End" -> 1
      [] OTHER -> c.textlet_indices[t.s]

IsWordToken(t) == t.kind = "Word"

\* C19: parse_sentence on a non-empty text whose tokenization has k Word
\* tokens w1..wk registers exactly k+1 transitions, Begin->w1, wi->w(i+1)
\* and wk->End, each with the Punct token lying between the two; "Mary had a
\* little lamb" parsed into a fresh chain yields 9 textlets and 6 edges.
C19_Step ==
    (ParseStep /\ ret'.arg # <<>>) =>
        \E toks \in {Lexer(ret'.arg)} :
        \E k \in {Len(SelectSeq(toks, IsWordToken))} :
        \E triples \in {{Triple(chain'.edge_list[i]) : i \in DOMAIN chain'.edge_list}} :
            /\ Len(toks) = 2 * k + 3
            /\ SumHits(chain'.edge_list) = SumHits(chain.edge_list) + k + 1
            /\ num_edges(chain') <= num_edges(chain) + k + 1
            /\ \A j \in 1 .. (k + 1) :
                    /\ toks[2 * j].kind = "Punct"
                    /\ toks[2 * j - 1].kind = (IF j = 1 THEN "Begin" ELSE "Word")
                    /\ toks[2 * j + 1].kind = (IF j = k + 1 THEN "End" ELSE "Word")
                    /\ <<TokenId(chain', toks[2 * j - 1]),
                         TokenId(chain', toks[2 * j + 1]),
                         TokenId(chain', toks[2 * j])>> \in triples
            /\ (chain = MarkovChain_new /\ ret'.arg = MaryHadALittleLamb) =>
                    num_textlets(chain') = 9 /\ num_edges(chain') = 6

C19_ParseRegistersTransitions == [][C19_Step]_vars

\* "Mary had a little lamb" has been parsed after another call
C19_Witness ==
    /\ ret.op = "parse_sentence"
    /\ ret.arg = MaryHadALittleLamb
    /\ calls = 2
    /\ num_edges(chain) >= 6

\* Ids are dense: 0 is Begin, 1 is End, the interned strings have the ids
\* from 2 up to num_textlets() - 1, one each, and get_textlet gives a
\* textlet exactly below num_textlets()
DenseIds(c) ==
    /\ HasTextlet(c, 0) /\ get_textlet(c, 0) = MtBegin
    /\ HasTextlet(c, 1) /\ get_textlet(c, 1) = MtEnd
    /\ \A i \in 2 .. (num_textlets(c) - 1) :
            /\ get_textlet(c, i).kind = "Textlet"
            /\ get_textlet(c, i).s \in Interned(c)
            /\ c.textlet_indices[get_textlet(c, i).s] = i
    /\ \A w \in Interned(c) :
            /\ c.textlet_indices[w] >= 2
            /\ c.textlet_indices[w] < num_textlets(c)
    /\ num_textlets(c) = 2 + Cardinality(Interned(c))
    /\ \A i \in 0 .. (num_textlets(c) + 1) : HasTextlet(c, i) <=> i < num_textlets(c)

\* Position (from 1) at which string w first shows in the token stream
FirstPos(toks, w) ==
    CHOOSE i \in DOMAIN toks :
        /\ toks[i].kind \in {"Word", "Punct"} /\ toks[i].s = w
        /\ \A j \in 1 .. (i - 1) : ~(toks[j].kind \in {"Word", "Punct"} /\ toks[j].s = w)

\* C20: textlet ids are dense and in first-seen order: 0 is Begin, 1 is End,
\* the n-th distinct string interned gets id n+1, get_textlet(i) is that
\* textlet for i < num_textlets() and None from num_textlets() on; after
\* "Mary had a little lamb" the empty punctuation has id 2 and " " id 4.
C20_Step ==
    \E fresh \in {Interned(chain') \ Interned(chain)} :
        /\ calls = 0 => DenseIds(chain)
        /\ DenseIds(chain')
        /\ \A w \in fresh : chain'.textlet_indices[w] >= num_textlets(chain)
        /\ ret'.op = "ensure_textlet_index" =>
                \A w \in fresh : ret'.id = num_textlets(chain)
        /\ (ParseStep /\ Cardinality(fresh) >= 2) =>
                \E toks \in {Lexer(ret'.arg)} :
                    \A v, w \in fresh :
                        FirstPos(toks, v) < FirstPos(toks, w) =>
                            chain'.textlet_indices[v] < chain'.textlet_indices[w]
        /\ (ParseStep /\ chain = MarkovChain_new /\ ret'.arg = MaryHadALittleLamb) =>
                /\ chain'.textlet_indices[<<>>] = 2
                /\ chain'.textlet_indices[<<" ">>] = 4

C20_DenseFirstSeenIds == [][C20_Step]_vars

\* "Mary had a little lamb" has been parsed into a fresh chain, and " " has
\* an id above that of a word seen before it
C20_Witness ==
    /\ ret.op = "parse_sentence"
    /\ ret.arg = MaryHadALittleLamb
    /\ calls = 1
    /\ <<" ">> \in Interned(chain)
    /\ chain.textlet_indices[<<" ">>] = 4

----------------------------------------------------------------------------
(* parse_sentence over a lexer that may be exhausted early: the lexer yields  *)
(* Begin first, then any number of the tokens that follow                    *)

MaxStreamLen == 2
MaxStreamCalls == 2

\* "a a" is the shortest sentence with two whole triples before its last
StreamSentences == SeqsUpTo(SentenceChars, MaxStreamLen) \cup {<<"a", " ", "a">>}

\* One parse_sentence call in which the lexer yields its first `yielded`
\* tokens and then None
ParseStream(sentence, yielded) ==
    /\ panicked = "none"
    /\ comp.pc = "idle"
    /\ calls < MaxStreamCalls
    /\ LET r == parse_tokens(chain, sentence, SubSeq(Lexer(sentence), 1, yielded))
       IN  /\ chain' = r.chain
           /\ panicked' = IF r.panic THEN "none_token" ELSE "none"
           /\ ret' = [op |-> "parse_sentence", arg |-> sentence, id |-> yielded,
                       exit |-> r.exit]
    /\ calls' = calls + 1
    /\ UNCHANGED <<lexstate, tokens, comp>>

NextStream ==
    \E sentence \in StreamSentences :
        \E yielded \in 1 .. Len(Lexer(sentence)) : ParseStream(sentence, yielded)

SpecStream == Init /\ [][NextStream]_vars

----------------------------------------------------------------------------
(* Properties of the lookups and of the empty chain *)

\* The ids at which the bag holds the textlet of string w
BagIds(c, w) == {i \in 0 .. (num_textlets(c) - 1) : get_textlet(c, i) = MtTextlet(w)}

\* C21: try_get_textlet_index never changes the chain; it returns the id of
\* a string that has been interned and None for a string never seen, and a
\* lookup of an unseen string allocates no id for it.
C21_Step ==
    (ret'.op = "try_get_textlet_index" /\ calls' = calls + 1) =>
        /\ chain' = chain
        /\ BagIds(chain, ret'.arg) # {} => ret'.id \in BagIds(chain, ret'.arg)
        /\ BagIds(chain, ret'.arg) = {} =>
                /\ ret'.id = -1
                /\ BagIds(chain', ret'.arg) = {}
                /\ ret'.arg \notin Interned(chain')
        /\ (ret'.arg = <<".">> /\ MaryHadALittleLamb \in {ret.arg}) => ret'.id = -1
        /\ (ret'.arg = <<>> /\ MaryHadALittleLamb \in {ret.arg} /\ calls = 1) => ret'.id = 2

C21_LookupIsPure == [][C21_Step]_vars

\* a string never seen was looked up in a chain that holds interned strings
C21_Witness ==
    /\ ret.op = "try_get_textlet_index"
    /\ ret.id = -1
    /\ num_textlets(chain) > 2

\* C22: a chain from new() has exactly the two sentinel textlets, no edges
\* and an empty seed bag; is_empty() is true iff no edge has been registered,
\* however many textlets exist; len() equals num_textlets().
C22_Step ==
    /\ calls = 0 =>
            /\ chain.textlet_bag = <<MtBegin, MtEnd>>
            /\ num_edges(chain) = 0
            /\ chain.seedbag = <<>>
            /\ chain.edges = EmptyMap /\ chain.reverse_edges = EmptyMap
            /\ is_empty(chain)
    /\ len(chain') = num_textlets(chain')
    /\ is_empty(chain') <=> num_edges(chain') = 0
    /\ is_empty(chain') <=> chain'.seedbag = <<>>
    \* the steps that register an edge are the parses of a non-empty text
    /\ (ParseStep /\ ret'.arg # <<>>) => ~is_empty(chain')
    /\ ~(ParseStep /\ ret'.arg # <<>>) => (is_empty(chain') <=> is_empty(chain))

C22_EmptyIffNoEdge == [][C22_Step]_vars

\* a chain with interned strings and no edge
C22_Witness ==
    /\ is_empty(chain)
    /\ len(chain) > 2
    /\ calls >= 1

\* C23: parse_sentence("") leaves the whole chain unchanged: no textlet (not
\* even the empty punctuation), edge, index entry or seed-bag entry is added.
C23_Step ==
    (ParseStep /\ ret'.arg = <<>>) =>
        /\ chain'.textlet_bag = chain.textlet_bag
        /\ chain'.textlet_indices = chain.textlet_indices
        /\ chain'.edge_list = chain.edge_list
        /\ chain'.edges = chain.edges
        /\ chain'.reverse_edges = chain.reverse_edges
        /\ chain'.seedbag = chain.seedbag
        /\ panicked' = "none"

C23_EmptyParseIsNoOp == [][C23_Step]_vars

\* the empty sentence was parsed into a fresh chain
C23_Witness ==
    /\ ret.op = "parse_sentence"
    /\ ret.arg = <<>>
    /\ calls = 1
    /\ <<>> \notin Interned(chain)

----------------------------------------------------------------------------
(* Properties of the Random seed *)

\* The ids a Random seed can resolve to
RandomIds(c) == {s.id : s \in {o \in get_seed(c, SeedRandom) : o.status = "ok"}}

\* C24: with the Random seed on a chain with at least one edge, the id the
\* seed resolves to is always a member of the seed bag, that is an id with at
\* least one outgoing edge, and every member of the seed bag can be drawn.
C24_RandomSeedFromSeedbag ==
    /\ num_edges(chain) > 0 =>
            /\ \A o \in get_seed(chain, SeedRandom) : o.status = "ok"
            /\ \A id \in RandomIds(chain) : InSeedbag(chain, id) /\ HasOutgoing(chain, id)
            /\ \A id \in 0 .. (num_textlets(chain) - 1) :
                    (InSeedbag(chain, id) \/ HasOutgoing(chain, id)) => id \in RandomIds(chain)
    /\ (Selected /\ ret.arg.seed = SeedRandom /\ num_edges(chain) > 0) =>
            /\ ret.arg.out.status # "panic"
            /\ InSeedbag(chain, ret.arg.out.from)
            /\ HasOutgoing(chain, ret.arg.out.from)

\* a Random selection resolved to a word of a seed bag of several ids
C24_Witness ==
    /\ SelectedOk
    /\ ret.arg.seed = SeedRandom
    /\ ret.arg.out.from >= 2
    /\ Len(chain.seedbag) >= 2

----------------------------------------------------------------------------
(* Properties of the list compose_sentence builds *)

\* The tokens of a list
TokensOf(list) == {list[i] : i \in DOMAIN list}

\* C25: a successful compose_sentence with seed Word(w) returns a list that
\* contains Textlet(w): the list starts as just the seed token, the seed
\* token is never removed, and tokens are added only at the front or back.
C25_Step ==
    /\ (comp.pc = "idle" /\ comp'.pc = "backward") =>
            /\ comp'.sentence = <<get_textlet(chain, comp'.seed_id)>>
            /\ comp'.seed.kind = "Word" => comp'.sentence = <<MtTextlet(comp'.seed.word)>>
    /\ (comp.pc = "backward" /\ comp'.pc # "idle") =>
            /\ Len(comp'.sentence) >= Len(comp.sentence)
            /\ SubSeq(comp'.sentence, Len(comp'.sentence) - Len(comp.sentence) + 1,
                      Len(comp'.sentence)) = comp.sentence
    /\ (comp.pc = "forward" /\ comp'.pc # "idle") =>
            /\ Len(comp'.sentence) >= Len(comp.sentence)
            /\ SubSeq(comp'.sentence, 1, Len(comp.sentence)) = comp.sentence
    /\ (comp'.pc = "returned" /\ comp'.result = "ok" /\ comp'.seed.kind = "Word") =>
            MtTextlet(comp'.seed.word) \in TokensOf(comp'.sentence)

C25_SeedWordStaysInList == [][C25_Step]_vars

\* a returned list with tokens on both sides of a seed word
C25_Witness ==
    /\ ReturnedOk
    /\ comp.seed.kind = "Word"
    /\ comp.seed.word # <<>>
    /\ Len(comp.sentence) >= 5
    /\ \E i \in DOMAIN comp.sentence :
            /\ comp.sentence[i] = MtTextlet(comp.seed.word)
            /\ i >= 3
            /\ i + 2 <= Len(comp.sentence)

----------------------------------------------------------------------------
(* Properties of the forward and reverse indices *)

\* The entry of an index for an id; the empty list when the id is no key
EntryOf(index, id) == IF id \in DOMAIN index THEN index[id] ELSE <<>>

\* No position of an index entry repeats an edge index
EachOnce(entry) == \A k, j \in DOMAIN entry : entry[k] = entry[j] => k = j

EdgeIds(c) == 0 .. (num_edges(c) - 1)

\* C26: after any sequence of parse_sentence calls, the forward index entry
\* of a source id s lists exactly the indices of the edges of the edge list
\* whose src is s, each index once.
C26_ForwardIndexExact ==
    \A s \in 0 .. (num_textlets(chain) - 1) :
        LET entry == EntryOf(chain.edges, s)
        IN  /\ \A i \in EdgeIds(chain) :
                    (At(chain.edge_list, i).src_idx = s) <=>
                        (\E k \in DOMAIN entry : entry[k] = i)
            /\ EachOnce(entry)

\* C27: the reverse index entry of a destination id d contains only edges
\* whose dst is d, no two of its entries have the same (src, punct), and it
\* contains every edge of the edge list whose dst is d.
C27_ReverseIndexExact ==
    \A d \in 0 .. (num_textlets(chain) - 1) :
        LET entry == EntryOf(chain.reverse_edges, d)
        IN  /\ \A k \in DOMAIN entry :
                    /\ entry[k] \in EdgeIds(chain)
                    /\ At(chain.edge_list, entry[k]).dst_idx = d
            /\ \A k, j \in DOMAIN entry :
                    (/\ At(chain.edge_list, entry[k]).src_idx = At(chain.edge_list, entry[j]).src_idx
                     /\ At(chain.edge_list, entry[k]).pct_idx = At(chain.edge_list, entry[j]).pct_idx)
                        => k = j
            /\ \A i \in EdgeIds(chain) :
                    (At(chain.edge_list, i).dst_idx = d) =>
                        (\E k \in DOMAIN entry : entry[k] = i)

\* the two parts of C27 that do not depend on the edge list being free of
\* duplicates: members lead to d, and no (src, punct) is listed twice
ReverseIndexSound ==
    \A d \in 0 .. (num_textlets(chain) - 1) :
        LET entry == EntryOf(chain.reverse_edges, d)
        IN  /\ \A k \in DOMAIN entry : At(chain.edge_list, entry[k]).dst_idx = d
            /\ \A k, j \in DOMAIN entry :
                    (/\ At(chain.edge_list, entry[k]).src_idx = At(chain.edge_list, entry[j]).src_idx
                     /\ At(chain.edge_list, entry[k]).pct_idx = At(chain.edge_list, entry[j]).pct_idx)
                        => k = j

\* the edges missing from the reverse index are duplicates of a listed one
ReverseIndexMissesOnlyDuplicates ==
    \A i \in EdgeIds(chain) :
        LET entry == EntryOf(chain.reverse_edges, At(chain.edge_list, i).dst_idx)
        IN  \E k \in DOMAIN entry :
                Triple(At(chain.edge_list, entry[k])) = Triple(At(chain.edge_list, i))

----------------------------------------------------------------------------
(* Properties of _weighted_select *)

\* The index entry a selection from `from` in `direction` reads
EntryToward(c, from, direction) ==
    EntryOf(IF direction = "Forward" THEN c.edges ELSE c.reverse_edges, from)

\* The weights a selector gives the edges of an entry
WeightsOf(c, entry, selector) ==
    [k \in DOMAIN entry |-> weight(selector, At(c.edge_list, entry[k]).hits)]

\* The positions of a weight list that hold its extremal weight
Extremal(sel_type, w) ==
    {k \in DOMAIN w :
        \A j \in DOMAIN w : IF sel_type = "Highest" THEN w[k] >= w[j] ELSE w[k] <= w[j]}

FixedKind(selector) == selection_type(selector) \in {"Highest", "Lowest"}

\* C28 as stated: with selection kind Highest or Lowest, when several
\* candidate edges share the extremal weight, the one chosen is the first of
\* them in the storage order of the seed's edge set.
C28_TieTakesFirst ==
    (SelectedOk /\ FixedKind(ret.arg.selector)) =>
        LET entry == EntryToward(chain, ret.arg.out.from, ret.arg.direction)
            ext == Extremal(selection_type(ret.arg.selector),
                            WeightsOf(chain, entry, ret.arg.selector))
        IN  \E k \in ext :
                /\ \A j \in ext : k <= j
                /\ entry[k] = entry[ret.arg.out.pos]

\* C28 amended: with selection kind Highest or Lowest the edge chosen has the
\* extremal weight, and when several candidates share it the one chosen is
\* the last of them in the storage order of the seed's edge set.
C28_TieTakesLast ==
    (SelectedOk /\ FixedKind(ret.arg.selector)) =>
        LET entry == EntryToward(chain, ret.arg.out.from, ret.arg.direction)
            ext == Extremal(selection_type(ret.arg.selector),
                            WeightsOf(chain, entry, ret.arg.selector))
        IN  /\ ret.arg.out.pos \in ext
            /\ \A j \in ext : j <= ret.arg.out.pos
            /\ ret.arg.out.dest_id =
                    (IF ret.arg.direction = "Forward"
                     THEN At(chain.edge_list, entry[ret.arg.out.pos]).dst_idx
                     ELSE At(chain.edge_list, entry[ret.arg.out.pos]).src_idx)
            /\ ret.arg.out.punct_id = At(chain.edge_list, entry[ret.arg.out.pos]).pct_idx

\* a Highest selection among two different edges of equal weight
C28_Witness ==
    /\ SelectedOk
    /\ selection_type(ret.arg.selector) = "Highest"
    /\ LET entry == EntryToward(chain, ret.arg.out.from, ret.arg.direction)
           ext == Extremal("Highest", WeightsOf(chain, entry, ret.arg.selector))
       IN  \E k, j \in ext : entry[k] # entry[j]

\* C30: WeightedRandom selection over candidates with positive weights
\* w_1..w_n and a draw in [0, w_1+...+w_n) returns the first candidate i whose
\* cumulative weight w_1+...+w_i reaches or exceeds the draw; such a candidate
\* always exists, and every candidate is returned for some draw.
C30_WeightedRandomScan ==
    /\ \A from \in 0 .. (num_textlets(chain) - 1), direction \in Directions,
          selector \in {"WeightedRandomSelector", "random::NaiveRandomSelector"} :
            LET entry == EntryToward(chain, from, direction)
                w == WeightsOf(chain, entry, selector)
            IN  entry # <<>> =>
                    /\ \A k \in DOMAIN w : w[k] > 0
                    /\ \A pick2 \in Picks(w) :
                            \E i \in {WeightedRandomScan(w, pick2, 1, 0)} :
                                /\ i \in DOMAIN w
                                /\ 2 * SumTo(w, i) >= pick2
                                /\ \A j \in 1 .. (i - 1) : 2 * SumTo(w, j) < pick2
                    /\ \A k \in DOMAIN w :
                            \E pick2 \in Picks(w) : WeightedRandomScan(w, pick2, 1, 0) = k
    /\ (Selected /\ selection_type(ret.arg.selector) = "WeightedRandom"
            /\ EntryToward(chain, ret.arg.out.from, ret.arg.direction) # <<>>) =>
            /\ ret.arg.out.status = "ok"
            /\ ret.arg.out.pos \in DOMAIN EntryToward(chain, ret.arg.out.from, ret.arg.direction)

\* a weighted draw among candidates of different weights gave the second one
C30_Witness ==
    /\ SelectedOk
    /\ ret.arg.selector = "WeightedRandomSelector"
    /\ ret.arg.out.pos >= 2
    /\ LET entry == EntryToward(chain, ret.arg.out.from, ret.arg.direction)
       IN  \E k \in DOMAIN entry :
                At(chain.edge_list, entry[k]).hits # ret.arg.out.hits

----------------------------------------------------------------------------
(* Properties of the length budget of compose_sentence *)

\* C29: with max_len = Some(L), the backward phase never prepends a (punct,
\* token) pair that would bring the running length above floor(L/2), and the
\* forward phase never appends a pair that would bring the cumulative running
\* length above L, so the forward phase may use all the budget the backward
\* phase left unused.
C29_Step ==
    /\ (comp.pc = "backward" /\ comp.max_len.some /\ comp'.sentence # comp.sentence) =>
            /\ TokenList_len(comp'.sentence) <= comp.max_len.v \div 2
            /\ comp'.len = TokenList_len(comp'.sentence)
            /\ comp'.len = comp.len + TokenList_len(SubSeq(comp'.sentence, 1,
                                Len(comp'.sentence) - Len(comp.sentence)))
    /\ (comp.pc = "forward" /\ comp.max_len.some /\ comp'.sentence # comp.sentence) =>
            /\ TokenList_len(comp'.sentence) <= comp.max_len.v
            /\ comp'.len = TokenList_len(comp'.sentence)
            /\ comp'.len = comp.len + TokenList_len(SubSeq(comp'.sentence,
                                Len(comp.sentence) + 1, Len(comp'.sentence)))

C29_PhasesWithinBudget == [][C29_Step]_vars

\* the backward phase added no length to a seed shorter than its half, and
\* the forward phase appended more than the other half of the budget
C29_Witness ==
    /\ ReturnedOkCapped
    /\ comp.curr_backward = comp.seed_id
    /\ \E i \in {1, 2} :
            /\ i < Len(comp.sentence)
            /\ comp.sentence[i] = get_textlet(chain, comp.seed_id)
            /\ TokenList_len(SubSeq(comp.sentence, 1, i - 1)) = 0
            /\ MarkovToken_len(comp.sentence[i]) < comp.max_len.v \div 2
            /\ TokenList_len(SubSeq(comp.sentence, i + 1, Len(comp.sentence)))
                    > comp.max_len.v - (comp.max_len.v \div 2)
    /\ TokenList_len(comp.sentence) <= comp.max_len.v

----------------------------------------------------------------------------
(* Properties of the selector calls of select_next_word *)

\* The positions of a call log that hold a call of method m
CallsOf(log, m) == {k \in DOMAIN log : log[k] = m}

\* The distinct edges an index entry lists
DistinctEdges(entry) == {entry[k] : k \in DOMAIN entry}

\* reset is the first call and the only reset, selection_type the last call
\* and the only one, and every call between them is a weight call
ResetFirstTypeLast(log) ==
    /\ Len(log) >= 2
    /\ CallsOf(log, "reset") = {1}
    /\ CallsOf(log, "selection_type") = {Len(log)}
    /\ \A k \in 2 .. (Len(log) - 1) : log[k] = "weight"

\* C31: in every successful select_next_word call, selector.reset(direction)
\* is called exactly once and before any weight call, weight is then called
\* exactly once for each distinct candidate edge of the seed in that
\* direction, and selection_type is consulted only after all weights are
\* collected.
C31_SelectorCallOrder ==
    SelectedOk =>
        /\ ResetFirstTypeLast(ret.arg.out.log)
        /\ Cardinality(CallsOf(ret.arg.out.log, "weight"))
                = Cardinality(DistinctEdges(EntryToward(chain, ret.arg.out.from,
                                                        ret.arg.direction)))

\* the part of C31 about reset and selection_type, with one weight call per
\* position of the index entry
SelectorCallsPerEntryPosition ==
    SelectedOk =>
        /\ ResetFirstTypeLast(ret.arg.out.log)
        /\ Cardinality(CallsOf(ret.arg.out.log, "weight"))
                = Len(EntryToward(chain, ret.arg.out.from, ret.arg.direction))

----------------------------------------------------------------------------
(* Properties of compose_sentence without a length cap *)

\* The ids the backward loop can move to from id with this selector, and
\* whether some selection from id ends the loop (an error, or Begin reached)
BackwardOutcomes(c, selector, id) == select_from(c, id, selector, "Reverse")

BackwardEnds(c, selector, id) ==
    \/ id = begin(c)
    \/ \E r \in BackwardOutcomes(c, selector, id) : r.status # "ok" \/ r.dest = MtBegin

\* The ids a backward walk from the ids of `todo` can visit
RECURSIVE BackwardReach(_, _, _, _)
BackwardReach(c, selector, todo, seen) ==
    IF todo = {} THEN seen
    ELSE LET x == CHOOSE y \in todo : TRUE
             nxt == IF BackwardEnds(c, selector, x) THEN {}
                    ELSE {r.dest_id : r \in BackwardOutcomes(c, selector, x)}
         IN  BackwardReach(c, selector, (todo \cup nxt) \ (seen \cup {x}), seen \cup {x})

\* No backward walk from id ever meets Begin or an error: the walk is caught
\* in a cycle of the reverse index
Trapped(c, selector, id) ==
    \A x \in BackwardReach(c, selector, {id}, {}) : ~BackwardEnds(c, selector, x)

\* C32: with max_len = None there is no internal guard: on a chain that
\* contains a cycle (for example one built from "a b a b") there is an
\* execution of compose_sentence in which the walk never reaches Begin or End
\* and the call never returns.  A backward walk caught in a cycle stays in the
\* backward loop at every step, whatever length the list has reached.
C32_Step ==
    (comp.pc = "backward" /\ ~comp.max_len.some /\ comp' # comp) =>
        \A trapped \in {Trapped(chain, comp.selector, comp.curr_backward)} :
            trapped =>
                /\ comp'.pc = "backward"
                /\ comp'.result = comp.result
                /\ Len(comp'.sentence) = Len(comp.sentence) + 2
                /\ comp'.sentence[1] # MtBegin
                /\ comp'.curr_backward \in
                        BackwardReach(chain, comp.selector, {comp.curr_backward}, {})

C32_CycleWalkNeverReturns == [][C32_Step]_vars

\* a walk without a cap over the chain of "a b a b" that is caught in the
\* cycle between a and b and has come back to its seed
C32_Witness ==
    /\ comp.pc = "backward"
    /\ ~comp.max_len.some
    /\ ret.arg = <<"a", " ", "b", " ", "a", " ", "b">>
    /\ Trapped(chain, comp.selector, comp.curr_backward)
    /\ Len(comp.sentence) >= 5
    /\ comp.curr_backward = comp.seed_id

----------------------------------------------------------------------------
(* Properties of parse_sentence over a token stream that ends early *)

\* The tokens the lexer yielded in the parse_sentence call recorded in r
Yielded(r) == SubSeq(Lexer(r.arg), 1, r.id)

\* The stream ends where a punct or a next token is required: no End stands
\* at the place of a next token
EndsMidTriple(toks) ==
    \A i \in DOMAIN toks : (i >= 3 /\ i % 2 = 1) => toks[i] # TokEnd

\* C33: parse_sentence never panics for any input text: the "Found a none
\* token prematurely" panic is unreachable, and a token stream that ends where
\* a punct or a next token is structurally required makes parse_sentence
\* return early instead.
C33_Step ==
    ParseStep =>
        /\ panicked' = "none"
        /\ ret'.exit # "panic"
        /\ (ret'.arg # <<>> /\ EndsMidTriple(Yielded(ret'))) => ret'.exit = "return"
        /\ (ret'.arg # <<>> /\ ~EndsMidTriple(Yielded(ret'))) => ret'.exit = "break"

C33_ParseNeverPanics == [][C33_Step]_vars

\* a stream that ended after a word, where a punct was required
C33_Witness ==
    /\ ret.op = "parse_sentence"
    /\ ret.exit = "return"
    /\ ret.id = 3
    /\ Yielded(ret)[3].kind = "Word"

\* C37: if parse_sentence returns early because the token stream ends
\* mid-triple, the chain is exactly as it was before the call: triples are
\* buffered first, and none of them, including those read before the
\* malformed point, is interned or registered.
C37_Step ==
    (ParseStep /\ ret'.exit = "return") =>
        /\ chain'.textlet_bag = chain.textlet_bag
        /\ chain'.textlet_indices = chain.textlet_indices
        /\ chain'.edge_list = chain.edge_list
        /\ chain'.edges = chain.edges
        /\ chain'.reverse_edges = chain.reverse_edges
        /\ chain'.seedbag = chain.seedbag

C37_EarlyReturnLeavesChain == [][C37_Step]_vars

\* an early return after two whole triples had been read, with strings the
\* chain had not seen
C37_Witness ==
    /\ ret.op = "parse_sentence"
    /\ ret.exit = "return"
    /\ ret.id >= 6
    /\ is_empty(chain)

----------------------------------------------------------------------------
(* Properties of the tokenizer on the empty string *)

\* C34: tokenizing the empty string yields exactly Begin, Punct(""), End and
\* then None, with no Word token and no error.
C34_EmptyStringTokens ==
    (lexstate.from = <<>> /\ LexStopped) =>
        /\ panicked = "none"
        /\ tokens = <<TokBegin, TokPunct(<<>>), TokEnd>>

\* what next() yields for the empty string: Begin and End, and then None
EmptyStringYieldsBeginEnd ==
    (lexstate.from = <<>> /\ LexStopped) =>
        /\ panicked = "none"
        /\ tokens = <<TokBegin, TokEnd>>

----------------------------------------------------------------------------
(* Properties of the tokens compose_sentence links *)

\* Some edge of the chain leads from token s through punct p to token d
EdgeRecorded(c, s, p, d) ==
    \E i \in DOMAIN c.edge_list :
        /\ get_textlet(c, c.edge_list[i].src_idx) = s
        /\ get_textlet(c, c.edge_list[i].pct_idx) = p
        /\ get_textlet(c, c.edge_list[i].dst_idx) = d

\* The list reads as [punct] token (punct token)* [punct], `lead` telling
\* whether it starts with a punct, and every triple of it is a recorded edge
LinkedFrom(c, list, lead) ==
    /\ lead < Len(list)
    /\ \A i \in DOMAIN list :
            (i % 2 = (lead + 1) % 2 /\ i + 2 <= Len(list)) =>
                EdgeRecorded(c, list[i], list[i + 1], list[i + 2])
    /\ lead = 1 => EdgeRecorded(c, MtBegin, list[1], list[2])
    /\ (Len(list) - lead) % 2 = 0 =>
            EdgeRecorded(c, list[Len(list) - 1], list[Len(list)], MtEnd)

\* C35: in every token list returned by compose_sentence, each consecutive
\* (token, punct, token) triple corresponds to an edge recorded in the chain
\* with that src, punct and dst; a leading punct with no token before it is
\* the punct of a recorded edge from Begin to the first token, and a trailing
\* punct with no token after it is the punct of a recorded edge from the last
\* token to End.
C35_Step ==
    /\ (comp.pc = "backward" /\ comp'.sentence # comp.sentence) =>
            \E added \in {SubSeq(comp'.sentence, 1, Len(comp'.sentence) - Len(comp.sentence))} :
                /\ Len(added) \in {1, 2}
                /\ Len(added) = 1 =>
                        /\ comp'.pc = "forward"
                        /\ EdgeRecorded(chain, MtBegin, added[1],
                                        get_textlet(chain, comp.curr_backward))
                /\ Len(added) = 2 =>
                        /\ added[1] = get_textlet(chain, comp'.curr_backward)
                        /\ EdgeRecorded(chain, added[1], added[2],
                                        get_textlet(chain, comp.curr_backward))
    /\ (comp.pc = "forward" /\ comp'.sentence # comp.sentence) =>
            \E added \in {SubSeq(comp'.sentence, Len(comp.sentence) + 1, Len(comp'.sentence))} :
                /\ Len(added) \in {1, 2}
                /\ Len(added) = 1 =>
                        /\ comp'.pc = "returned"
                        /\ EdgeRecorded(chain, get_textlet(chain, comp.curr_forward),
                                        added[1], MtEnd)
                /\ Len(added) = 2 =>
                        /\ added[2] = get_textlet(chain, comp'.curr_forward)
                        /\ EdgeRecorded(chain, get_textlet(chain, comp.curr_forward),
                                        added[1], added[2])
    /\ (comp.pc = "forward" /\ comp'.pc = "returned" /\ comp'.result = "ok") =>
            \E lead \in {0, 1} : LinkedFrom(chain, comp'.sentence, lead)

C35_ListFollowsEdges == [][C35_Step]_vars

\* a returned list with a leading punct, a trailing punct and two tokens
C35_Witness ==
    /\ ReturnedOk
    /\ Len(comp.sentence) = 5
    /\ LinkedFrom(chain, comp.sentence, 1)
    /\ comp.sentence[2] # comp.sentence[4]

----------------------------------------------------------------------------
(* Properties of the hit counts handed to the selector *)

\* The j-th transition of a token stream, as the ids (src, dst, punct) that
\* its tokens have in chain c
TransitionAt(c, toks, j) ==
    <<TokenId(c, toks[2 * j - 1]), TokenId(c, toks[2 * j + 1]), TokenId(c, toks[2 * j])>>

Transitions(toks) == 1 .. ((Len(toks) - 1) \div 2)

\* The hit counts select_next_word hands to selector.weight for transition t
\* when it reads index entry `entry`
HitsPassed(c, entry, t) ==
    {At(c.edge_list, entry[k]).hits :
        k \in {n \in DOMAIN entry : Triple(At(c.edge_list, entry[n])) = t}}

\* C36: for every transition (s, p, d) observed by parse_sentence, the hit
\* count passed to the selector for it is the same when traversing Forward
\* from s and Reverse from d, and equals the number of times the triple
\* (s, p, d) has been registered.
C36_HitsAgreeBothWays ==
    (calls >= 1 /\ ret.arg # <<>>) =>
        \A toks \in {Lexer(ret.arg)} :
            \A j \in Transitions(toks) :
                LET t == TransitionAt(chain, toks, j)
                    registered ==
                        calls * Cardinality({i \in Transitions(toks) :
                                                TransitionAt(chain, toks, i) = t})
                IN  /\ HitsPassed(chain, EntryOf(chain.edges, t[1]), t) = {registered}
                    /\ HitsPassed(chain, EntryOf(chain.reverse_edges, t[2]), t) = {registered}

\* what holds of the reverse index alone: it passes one hit count for every
\* transition observed
ReversePassesEveryTransition ==
    (calls >= 1 /\ ret.arg # <<>>) =>
        \A toks \in {Lexer(ret.arg)} :
            \A j \in Transitions(toks) :
                LET t == TransitionAt(chain, toks, j)
                IN  Cardinality(HitsPassed(chain, EntryOf(chain.reverse_edges, t[2]), t)) = 1

----------------------------------------------------------------------------
(* Properties of TokenList *)

\* C38: TokenList::is_empty() returns true exactly when the list holds no
\* token of non-zero length, i.e. exactly when TokenList::len() is 0.
C38_IsEmptyIffLenZero ==
    ReturnedOk =>
        /\ TokenList_is_empty(comp.sentence) <=> TokenList_len(comp.sentence) = 0
        /\ TokenList_is_empty(comp.sentence) <=>
                (\A i \in DOMAIN comp.sentence : MarkovToken_len(comp.sentence[i]) = 0)

\* what is_empty() returns: true exactly when len() is not 0
IsEmptyIffLenNotZero ==
    ReturnedOk =>
        (TokenList_is_empty(comp.sentence) <=> TokenList_len(comp.sentence) # 0)

----------------------------------------------------------------------------
(* Properties of the ids stored in edges *)

\* Edge::get_source, get_dest and get_punct: chain.get_textlet(idx).unwrap()
Edge_get_source(c, e) == get_textlet(c, e.src_idx)
Edge_get_dest(c, e) == get_textlet(c, e.dst_idx)
Edge_get_punct(c, e) == get_textlet(c, e.pct_idx)

\* C39: after any sequence of parse_sentence calls, every edge in the edge
\* list has src_idx, dst_idx and pct_idx below num_textlets(), its src_idx is
\* never the End id and its dst_idx is never the Begin id, so
\* Edge::get_source, get_dest and get_punct never fail on a stored edge.
C39_EdgeIdsValid ==
    \A i \in DOMAIN chain.edge_list :
        LET e == chain.edge_list[i]
        IN  /\ e.src_idx \in 0 .. (num_textlets(chain) - 1)
            /\ e.dst_idx \in 0 .. (num_textlets(chain) - 1)
            /\ e.pct_idx \in 0 .. (num_textlets(chain) - 1)
            /\ HasTextlet(chain, e.src_idx)
            /\ HasTextlet(chain, e.dst_idx)
            /\ HasTextlet(chain, e.pct_idx)
            /\ Edge_get_source(chain, e) # MtEnd
            /\ Edge_get_dest(chain, e) # MtBegin
            /\ e.src_idx # 1
            /\ e.dst_idx # 0

\* two parses have stored an edge from Begin, an edge to End and an edge
\* between two words
C39_Witness ==
    /\ calls = 2
    /\ \E i, j, k \in DOMAIN chain.edge_list :
            /\ chain.edge_list[i].src_idx = 0
            /\ chain.edge_list[j].dst_idx = 1
            /\ chain.edge_list[k].src_idx >= 2 /\ chain.edge_list[k].dst_idx >= 2

====
